---- MODULE Spec2Model ----
\* Model of the domain availability checker worker (src/src/index.ts):
\* getDomainList, checkDomainAvailability, sendDiscordMessage and the
\* fetch handler, one handler invocation per behaviour.
EXTENDS Integers, Sequences, FiniteSets, TLC

\* ---------------------------------------------------------------------
\* Bounds of the model.  Strings are sequences of one-character strings.
\* ---------------------------------------------------------------------

\* Longest DOMAINS string that is enumerated.
MaxLen == 3

\* Largest DNS status code a response carries (the smallest is -1).
MaxStatus == 6

\* Characters a DOMAINS string is built from: a lower-case and an upper-case
\* letter, two digits, the list separator and a white-space character.
Alphabet == {"a", "A", "0", "1", ",", " "}

StringsUpTo(n) == UNION {[1..k -> Alphabet] : k \in 0..n}

\* ---------------------------------------------------------------------
\* DNSStatus enum
\* ---------------------------------------------------------------------
NOERROR == 0
FORMERR == 1
SERVFAIL == 2
NXDOMAIN == 3
NOTIMP == 4
REFUSED == 5

\* ---------------------------------------------------------------------
\* String primitives used by the code
\* ---------------------------------------------------------------------

\* String.prototype.toLowerCase, one character.
LowerChar(c) == IF c = "A" THEN "a" ELSE c

\* String.prototype.toLowerCase.
toLowerCase(s) == [k \in 1..Len(s) |-> LowerChar(s[k])]

IsSpace(c) == c = " "

RECURSIVE TrimStart(_)
TrimStart(s) ==
    IF s # <<>> /\ IsSpace(Head(s)) THEN TrimStart(Tail(s)) ELSE s

RECURSIVE TrimEnd(_)
TrimEnd(s) ==
    IF s # <<>> /\ IsSpace(s[Len(s)])
    THEN TrimEnd(SubSeq(s, 1, Len(s) - 1))
    ELSE s

\* String.prototype.trim.
trim(s) == TrimEnd(TrimStart(s))

\* String.prototype.split(","): the pieces between the separators, in order;
\* a string without a separator (the empty string included) is one piece.
RECURSIVE split(_)
split(s) ==
    IF \E k \in 1..Len(s) : s[k] = ","
    THEN LET k == CHOOSE j \in 1..Len(s) :
                      s[j] = "," /\ \A m \in 1..(j - 1) : s[m] # ","
         IN  <<SubSeq(s, 1, k - 1)>> \o split(SubSeq(s, k + 1, Len(s)))
    ELSE <<s>>

\* Array.prototype.filter(domain => domain.length > 0).
RECURSIVE filterNonEmpty(_)
filterNonEmpty(list) ==
    IF list = <<>> THEN <<>>
    ELSE IF Len(Head(list)) > 0
         THEN <<Head(list)>> \o filterNonEmpty(Tail(list))
         ELSE filterNonEmpty(Tail(list))

\* Array.prototype.join(", ").
RECURSIVE join(_)
join(list) ==
    IF list = <<>> THEN <<>>
    ELSE IF Len(list) = 1 THEN Head(list)
    ELSE Head(list) \o <<",", " ">> \o join(Tail(list))

\* ---------------------------------------------------------------------
\* getDomainList
\* ---------------------------------------------------------------------

\* env.DOMAINS is either not set or a string.
EnvDomains ==
    {[set |-> FALSE, value |-> <<>>]}
        \cup {[set |-> TRUE, value |-> s] : s \in StringsUpTo(MaxLen)}

\* !env.DOMAINS : undefined and the empty string are falsy.
DomainsMissing(d) == ~d.set \/ d.value = <<>>

\* The value getDomainList returns when it does not throw.
getDomainList(d) ==
    filterNonEmpty([k \in 1..Len(split(d.value)) |->
                       toLowerCase(trim(split(d.value)[k]))])

\* ---------------------------------------------------------------------
\* The DNS-over-HTTPS transport: what one fetch(url, ...) can do
\* ---------------------------------------------------------------------

\* data.Status as found in the parsed body: absent, a number, or a string
\* spelling a number.
StatusValues ==
    {[type |-> "undefined"], [type |-> "string", str |-> "3"]}
        \cup {[type |-> "number", num |-> n] : n \in -1..MaxStatus}

\* What response.json() meets: text that is not JSON, the JSON value null,
\* or a JSON object with its Status member.
Bodies ==
    {[json |-> "invalid"], [json |-> "null"]}
        \cup {[json |-> "object", Status |-> v] : v \in StatusValues}

\* fetch rejects (with an Error or with some other value), resolves to a
\* response, or never settles.
DnsTransports ==
    {[kind |-> "reject", isError |-> TRUE, message |-> "network error"],
     [kind |-> "reject", isError |-> FALSE, message |-> ""],
     [kind |-> "response", status |-> 404, statusText |-> "Not Found",
      body |-> [json |-> "invalid"]],
     [kind |-> "pending"]}
        \cup {[kind |-> "response", status |-> 200, statusText |-> "OK",
               body |-> b] : b \in Bodies}

\* No fetch was issued.
NoCall == [kind |-> "none"]

\* response.ok
ok(response) == response.status \in 200..299

\* data.Status === code (strict equality: no conversion of strings).
StrictEquals(v, code) == v.type = "number" /\ v.num = code

\* The value a failing step throws inside the try block, if any:
\* fetch rejecting, response.json() on text that is not JSON, or the
\* property read data.Status on null.
Thrown(t) ==
    IF t.kind = "reject"
    THEN [thrown |-> TRUE, isError |-> t.isError, message |-> t.message]
    ELSE IF ok(t) /\ t.body.json = "invalid"
    THEN [thrown |-> TRUE, isError |-> TRUE,
          message |-> "Unexpected token in JSON"]
    ELSE IF ok(t) /\ t.body.json = "null"
    THEN [thrown |-> TRUE, isError |-> TRUE,
          message |-> "Cannot read properties of null"]
    ELSE [thrown |-> FALSE, isError |-> FALSE, message |-> ""]

\* error instanceof Error ? error.message : "Unknown error"
ErrorMessage(e) == IF e.isError THEN e.message ELSE "Unknown error"

\* Classify with the availability test made against NOERROR.
ClassifySwapped(Status) ==
    IF StrictEquals(Status, SERVFAIL)
    THEN [success |-> FALSE, error |-> "DNS server failed to respond",
          available |-> FALSE]
    ELSE IF StrictEquals(Status, FORMERR)
    THEN [success |-> FALSE, error |-> "DNS query format error",
          available |-> FALSE]
    ELSE [success |-> TRUE, available |-> StrictEquals(Status, NOERROR)]

\* The return statements that follow a parsed body.
Classify(Status) ==
    IF StrictEquals(Status, SERVFAIL)
    THEN [success |-> FALSE, error |-> "DNS server failed to respond",
          available |-> FALSE]
    ELSE IF StrictEquals(Status, FORMERR)
    THEN [success |-> FALSE, error |-> "DNS query format error",
          available |-> FALSE]
    ELSE [success |-> TRUE, available |-> StrictEquals(Status, NXDOMAIN)]

\* !domain || typeof domain !== "string"
InvalidDomain(domain) == domain = <<>>

\* The name put into the query string.
sanitizedDomain(domain) == trim(toLowerCase(domain))

\* checkDomainAvailability, given what its fetch does (t is NoCall when the
\* domain is rejected before any fetch).  Defined for every t that settles.
checkDomainAvailability(domain, t) ==
    IF InvalidDomain(domain)
    THEN [success |-> FALSE, error |-> "Invalid domain name",
          available |-> FALSE]
    ELSE IF Thrown(t).thrown
    THEN [success |-> FALSE,
          error |-> "DNS lookup error: " \o ErrorMessage(Thrown(t)),
          available |-> FALSE]
    ELSE IF ~ok(t)
    THEN [success |-> FALSE,
          error |-> "DNS lookup failed: " \o t.statusText
                        \o " (" \o ToString(t.status) \o ")",
          available |-> FALSE]
    ELSE Classify(t.body.Status)

\* ---------------------------------------------------------------------
\* The results object: own properties in the order Object.keys,
\* Object.entries and JSON.stringify visit them
\* ---------------------------------------------------------------------

IsDigit(c) == c \in {"0", "1", "2", "3", "4", "5", "6", "7", "8", "9"}

DigitValue(c) ==
    CASE c = "0" -> 0 [] c = "1" -> 1 [] c = "2" -> 2 [] c = "3" -> 3
      [] c = "4" -> 4 [] c = "5" -> 5 [] c = "6" -> 6 [] c = "7" -> 7
      [] c = "8" -> 8 [] c = "9" -> 9

\* Lexicographic order of two digit strings of the same length, which is
\* their numeric order.
RECURSIVE DigitsLess(_, _)
DigitsLess(a, b) ==
    IF a = <<>> THEN FALSE
    ELSE IF Head(a) # Head(b) THEN DigitValue(Head(a)) < DigitValue(Head(b))
    ELSE DigitsLess(Tail(a), Tail(b))

\* 2^32 - 2, the largest array index.
MaxArrayIndex == <<"4", "2", "9", "4", "9", "6", "7", "2", "9", "4">>

\* A property key that is a canonical numeric string below 2^32 - 1.
IsArrayIndex(key) ==
    /\ key # <<>>
    /\ \A k \in 1..Len(key) : IsDigit(key[k])
    /\ Len(key) = 1 \/ key[1] # "0"
    /\ \/ Len(key) < Len(MaxArrayIndex)
       \/ Len(key) = Len(MaxArrayIndex) /\ ~DigitsLess(MaxArrayIndex, key)

\* Numeric order of two array indices.
IndexLess(a, b) ==
    \/ Len(a) < Len(b)
    \/ Len(a) = Len(b) /\ DigitsLess(a, b)

\* Object.keys(obj)
Keys(obj) == [k \in 1..Len(obj) |-> obj[k].key]

HasKey(obj, key) == \E k \in 1..Len(obj) : obj[k].key = key

\* obj[key] for an own property.
Get(obj, key) == obj[CHOOSE k \in 1..Len(obj) : obj[k].key = key].value

\* Where a new property lands: array indices come first in ascending numeric
\* order, all other keys follow in the order they were created.
InsertAt(obj, key) ==
    IF IsArrayIndex(key)
    THEN Cardinality({k \in 1..Len(obj) :
                         IsArrayIndex(obj[k].key) /\ IndexLess(obj[k].key, key)}) + 1
    ELSE Len(obj) + 1

\* obj[key] = value : an existing property keeps its place.  Every key over
\* Alphabet names an ordinary own property (the one key that does not,
\* "__proto__", cannot be spelled with it).
SetProperty(obj, key, value) ==
    IF HasKey(obj, key)
    THEN [k \in 1..Len(obj) |->
             IF obj[k].key = key THEN [key |-> key, value |-> value] ELSE obj[k]]
    ELSE SubSeq(obj, 1, InsertAt(obj, key) - 1)
             \o <<[key |-> key, value |-> value]>>
             \o SubSeq(obj, InsertAt(obj, key), Len(obj))

\* The property stored for one domain.
Entry(r) ==
    IF ~r.success
    THEN [available |-> FALSE, error |-> r.error]
    ELSE [available |-> r.available]

\* availableDomains with the filter left out.
availableDomainsUnfiltered(obj) == Keys(obj)

\* Object.entries(results).filter(([_, data]) => data.available)
\*     .map(([domain]) => domain)
RECURSIVE availableDomains(_)
availableDomains(obj) ==
    IF obj = <<>> THEN <<>>
    ELSE IF Head(obj).value.available
         THEN <<Head(obj).key>> \o availableDomains(Tail(obj))
         ELSE availableDomains(Tail(obj))

Prefix == <<"The following domains are available: ">>

\* The text handed to sendDiscordMessage.
Message(list) == Prefix \o join(list)

\* The webhook fetch resolves (its response is not looked at), rejects, or
\* never settles.
HookTransports == {"resolve", "reject", "pending"}

\* ---------------------------------------------------------------------
\* The replies
\* ---------------------------------------------------------------------

\* ReplyStatus that answers 200 whatever happened.
ReplyStatusAlwaysOk(errors) == 200

\* status: hasErrors ? 500 : 200
ReplyStatus(errors) == IF errors THEN 500 ELSE 200

\* The Response built at the end of the try block.
CompletedReply(errors, obj) ==
    [status |-> ReplyStatus(errors),
     body |-> [status |-> IF errors THEN "error" ELSE "success",
               results |-> obj,
               message |-> "Domain check completed"]]

\* The Response built in the catch block.
ErrorReply(e) ==
    [status |-> 500,
     body |-> [status |-> "error", error |-> ErrorMessage(e)]]

NoReply == [status |-> 0]

NoResult == [success |-> FALSE, none |-> TRUE]

\* ---------------------------------------------------------------------
\* State of one invocation of the handler
\* ---------------------------------------------------------------------

VARIABLES
    DOMAINS,    \* env.DOMAINS
    pc,         \* where the handler stands
    domains,    \* const domains
    i,          \* position of the for-of loop in domains, from 1
    net,        \* what the DNS fetch in flight (or the last one) does
    result,     \* const result of the last lookup
    results,    \* const results
    hasErrors,  \* let hasErrors
    hook,       \* what the webhook fetch does
    caught,     \* the catch block of the handler was entered
    reply,      \* the Response returned
    trace       \* outbound calls, their returns and the reply, in order

vars == <<DOMAINS, pc, domains, i, net, result, results, hasErrors, hook,
          caught, reply, trace>>

Init ==
    /\ DOMAINS \in EnvDomains
    /\ pc = "start"
    /\ domains = <<>>
    /\ i = 1
    /\ net = NoCall
    /\ result = NoResult
    /\ results = <<>>
    /\ hasErrors = FALSE
    /\ hook = "none"
    /\ caught = FALSE
    /\ reply = NoReply
    /\ trace = <<>>

\* getDomainList throws: the catch block builds the reply.
GetDomainListThrows ==
    /\ pc = "start"
    /\ DomainsMissing(DOMAINS)
    /\ caught' = TRUE
    /\ reply' = ErrorReply([isError |-> TRUE,
                            message |-> "DOMAINS environment variable is not set"])
    /\ trace' = Append(trace, [op |-> "reply"])
    /\ pc' = "done"
    /\ UNCHANGED <<DOMAINS, domains, i, net, result, results, hasErrors, hook>>

\* getDomainList returns; results and hasErrors are initialised.
GetDomainListReturns ==
    /\ pc = "start"
    /\ ~DomainsMissing(DOMAINS)
    /\ domains' = getDomainList(DOMAINS)
    /\ results' = <<>>
    /\ hasErrors' = FALSE
    /\ i' = 1
    /\ pc' = "loop"
    /\ UNCHANGED <<DOMAINS, net, result, hook, caught, reply, trace>>

\* The loop calls checkDomainAvailability for the next domain, which issues
\* its fetch (unless it rejects the domain) and awaits it.
LookupCall ==
    /\ pc = "loop"
    /\ i <= Len(domains)
    /\ IF InvalidDomain(domains[i])
       THEN net' = NoCall /\ trace' = trace
       ELSE /\ net' \in DnsTransports
            /\ trace' = Append(trace, [op |-> "dns",
                                       name |-> sanitizedDomain(domains[i])])
    /\ pc' = "awaitLookup"
    /\ UNCHANGED <<DOMAINS, domains, i, result, results, hasErrors, hook,
                   caught, reply>>

\* LookupReturn that asks again for a domain whose lookup failed.
LookupReturnRetry ==
    /\ pc = "awaitLookup"
    /\ net.kind # "pending"
    /\ LET r == checkDomainAvailability(domains[i], net)
       IN  /\ result' = r
           /\ hasErrors' = (hasErrors \/ ~r.success)
           /\ results' = SetProperty(results, domains[i], Entry(r))
           /\ i' = IF r.success THEN i + 1 ELSE i
    /\ trace' = IF net = NoCall THEN trace
                ELSE Append(trace, [op |-> "dnsReturn"])
    /\ pc' = "loop"
    /\ UNCHANGED <<DOMAINS, domains, net, hook, caught, reply>>

\* The fetch settles, checkDomainAvailability returns and the loop body
\* records the result.
LookupReturn ==
    /\ pc = "awaitLookup"
    /\ net.kind # "pending"
    /\ LET r == checkDomainAvailability(domains[i], net)
       IN  /\ result' = r
           /\ hasErrors' = (hasErrors \/ ~r.success)
           /\ results' = SetProperty(results, domains[i], Entry(r))
    /\ trace' = IF net = NoCall THEN trace
                ELSE Append(trace, [op |-> "dnsReturn"])
    /\ i' = i + 1
    /\ pc' = "loop"
    /\ UNCHANGED <<DOMAINS, domains, net, hook, caught, reply>>

\* Object.keys(results).length > 0 && availableDomains.length > 0
ShouldNotify(obj) == Len(Keys(obj)) > 0 /\ Len(availableDomains(obj)) > 0

\* After the loop: some domain is available, sendDiscordMessage is called
\* and its fetch awaited.
Notify ==
    /\ pc = "loop"
    /\ i > Len(domains)
    /\ ShouldNotify(results)
    /\ trace' = Append(trace, [op |-> "discord",
                               message |-> Message(availableDomains(results))])
    /\ hook' \in HookTransports
    /\ pc' = "awaitNotify"
    /\ UNCHANGED <<DOMAINS, domains, i, net, result, results, hasErrors,
                   caught, reply>>

\* The webhook fetch resolves: the reply of the try block is returned.
NotifyReturns ==
    /\ pc = "awaitNotify"
    /\ hook = "resolve"
    /\ reply' = CompletedReply(hasErrors, results)
    /\ trace' = Append(trace, [op |-> "reply"])
    /\ pc' = "done"
    /\ UNCHANGED <<DOMAINS, domains, i, net, result, results, hasErrors,
                   hook, caught>>

\* The webhook fetch rejects: the exception leaves sendDiscordMessage and
\* the catch block builds the reply.
NotifyThrows ==
    /\ pc = "awaitNotify"
    /\ hook = "reject"
    /\ caught' = TRUE
    /\ reply' = ErrorReply([isError |-> TRUE, message |-> "network error"])
    /\ trace' = Append(trace, [op |-> "reply"])
    /\ pc' = "done"
    /\ UNCHANGED <<DOMAINS, domains, i, net, result, results, hasErrors, hook>>

\* After the loop: nothing to announce, the reply of the try block is
\* returned.
ReplyWithoutNotify ==
    /\ pc = "loop"
    /\ i > Len(domains)
    /\ ~ShouldNotify(results)
    /\ reply' = CompletedReply(hasErrors, results)
    /\ trace' = Append(trace, [op |-> "reply"])
    /\ pc' = "done"
    /\ UNCHANGED <<DOMAINS, domains, i, net, result, results, hasErrors,
                   hook, caught>>

Next ==
    \/ GetDomainListThrows
    \/ GetDomainListReturns
    \/ LookupCall
    \/ LookupReturn
    \/ Notify
    \/ NotifyReturns
    \/ NotifyThrows
    \/ ReplyWithoutNotify

Spec == Init /\ [][Next]_vars

\* The runtime keeps running the handler while one of its steps can be taken.
FairSpec == Spec /\ WF_vars(Next)

\* ---------------------------------------------------------------------
\* Auxiliary notions for the properties
\* ---------------------------------------------------------------------

\* The last lookup has returned and net is the transport it met.
LookupSettled == pc # "awaitLookup" /\ result # NoResult

\* The fetch resolved with an HTTP-ok response whose body is a JSON object
\* carrying a numeric Status.
WellFormed(t) ==
    /\ t.kind = "response"
    /\ ok(t)
    /\ t.body.json = "object"
    /\ t.body.Status.type = "number"

\* A fetch was issued and did not deliver a well-formed response.
TransportFailure(t) == t.kind \in {"reject", "response"} /\ ~WellFormed(t)

\* The for-of loop has run to its end.
LoopFinished == pc \in {"loop", "awaitNotify", "done"} /\ i > Len(domains)

\* Events of the trace with a given op, as positions.
Positions(op) == {k \in 1..Len(trace) : trace[k].op = op}

\* The domains an object lists as available.
AvailableSet(obj) ==
    {obj[k].key : k \in {j \in 1..Len(obj) : obj[j].value.available}}

\* The names a notification message lists: what follows the prefix, split
\* at the commas and trimmed.
NamesIn(message) ==
    LET pieces == split(Tail(message))
    IN  {trim(pieces[k]) : k \in 1..Len(pieces)} \ {<<>>}

\* The distinct elements of a list, each at its first occurrence.
RECURSIVE FirstOccurrences(_)
FirstOccurrences(list) ==
    IF list = <<>> THEN <<>>
    ELSE LET init == FirstOccurrences(SubSeq(list, 1, Len(list) - 1))
             last == list[Len(list)]
         IN  IF \E k \in 1..Len(init) : init[k] = last
             THEN init
             ELSE Append(init, last)

\* The elements of a list that belong to a set, in the order of the list.
RECURSIVE Restrict(_, _)
Restrict(list, S) ==
    IF list = <<>> THEN <<>>
    ELSE IF Head(list) \in S
         THEN <<Head(list)>> \o Restrict(Tail(list), S)
         ELSE Restrict(Tail(list), S)

\* ---------------------------------------------------------------------
\* Properties
\* ---------------------------------------------------------------------

\* C1: for a well-formed HTTP-ok response with status code s, the lookup
\* returns Available for s = 3, Failed "DNS server failed to respond" for
\* s = 2, Failed "DNS query format error" for s = 1, and Unavailable for
\* every other code.
C1_StatusClassification ==
    (LookupSettled /\ WellFormed(net)) =>
        LET s == net.body.Status.num
        IN  /\ s = 3 => result = [success |-> TRUE, available |-> TRUE]
            /\ s = 2 => result = [success |-> FALSE, available |-> FALSE,
                                  error |-> "DNS server failed to respond"]
            /\ s = 1 => result = [success |-> FALSE, available |-> FALSE,
                                  error |-> "DNS query format error"]
            /\ s \notin {1, 2, 3} =>
                   result = [success |-> TRUE, available |-> FALSE]

C1_Witness ==
    /\ LookupSettled
    /\ WellFormed(net)
    /\ net.body.Status.num = 3
    /\ result.success
    /\ result.available

\* C2: a lookup whose transport fails (rejection, non-ok HTTP status, body
\* that is not JSON, body without a usable Status) returns Failed: success
\* and available false, with a reason; never Available or Unavailable.
C2_TransportFailureIsFailed ==
    (LookupSettled /\ TransportFailure(net)) =>
        /\ ~result.success
        /\ ~result.available
        /\ "error" \in DOMAIN result

\* C3: once the loop has processed the domains, hasErrors is true exactly
\* when some entry of results carries an error.
C3_HasErrorsIffErrorEntry ==
    LoopFinished =>
        (hasErrors <=>
            \E k \in 1..Len(results) : "error" \in DOMAIN results[k].value)

\* C4: when the domain list was obtained without a configuration error, the
\* reply contains a result entry for every requested domain.
C4_ReplyHasEveryDomain ==
    (pc = "done" /\ ~DomainsMissing(DOMAINS)) =>
        /\ "results" \in DOMAIN reply.body
        /\ \A k \in 1..Len(domains) : HasKey(reply.body.results, domains[k])

\* C5: the notifier is called at most once; after the loop's decision it
\* has been called zero times when no entry of results is available and
\* exactly once otherwise, and the message names exactly the available
\* domains.
C5_NotifierOnceWithAvailable ==
    /\ Cardinality(Positions("discord")) <= 1
    /\ pc \in {"awaitNotify", "done"} =>
           IF AvailableSet(results) = {}
           THEN Positions("discord") = {}
           ELSE /\ Cardinality(Positions("discord")) = 1
                /\ \A k \in Positions("discord") :
                       /\ SubSeq(trace[k].message, 1, 1) = Prefix
                       /\ NamesIn(trace[k].message) = AvailableSet(results)

C5_Witness ==
    /\ pc = "done"
    /\ Cardinality(AvailableSet(results)) = 1
    /\ Len(results) = 2
    /\ Cardinality(Positions("discord")) = 1

\* C6: the reply's HTTP status is 200 exactly when hasErrors is false and
\* the catch block was not entered, and 500 otherwise; the body's status is
\* "success" exactly when the HTTP status is 200 and "error" otherwise.
C6_ReplyStatusConvention ==
    pc = "done" =>
        /\ reply.status \in {200, 500}
        /\ reply.status = 200 <=> (~hasErrors /\ ~caught)
        /\ reply.status = 500 <=> (hasErrors \/ caught)
        /\ reply.body.status \in {"success", "error"}
        /\ reply.body.status = "success" <=> reply.status = 200

C6_Witness ==
    /\ pc = "done"
    /\ hasErrors
    /\ ~caught
    /\ reply.status = 500
    /\ reply.body.status = "error"

\* C7: when DOMAINS is unset, empty, or yields no domain, the invocation
\* makes no outbound call and replies with a top-level error, HTTP 500.
C7_EmptyListIsConfigError ==
    (pc = "done" /\ (DomainsMissing(DOMAINS) \/ getDomainList(DOMAINS) = <<>>)) =>
        /\ Positions("dns") = {}
        /\ Positions("discord") = {}
        /\ reply.status = 500
        /\ reply.body.status = "error"
        /\ "error" \in DOMAIN reply.body

\* C8: every lookup that was started returns, whatever its transport does,
\* so every invocation reaches its reply.
C8_LookupAlwaysReturns == (pc = "awaitLookup") ~> (pc # "awaitLookup")

\* C9: the keys of results are the input domains in input order, each at
\* its first occurrence, and the available domains are listed in that order.
C9_ResultsInInputOrder ==
    LoopFinished =>
        /\ Keys(results) = FirstOccurrences(domains)
        /\ availableDomains(results)
               = Restrict(FirstOccurrences(domains), AvailableSet(results))

\* C10: lookups are issued one at a time in input order, one call per entry
\* of the domain list; the notification is issued after the last lookup has
\* returned and before the reply.
C10_SequentialLookups ==
    LET dns == Positions("dns")
        nth(k) == Cardinality({j \in dns : j <= k})
    IN  \* the k-th call asks for the k-th domain, and there are no others
        /\ \A k \in dns : /\ nth(k) <= Len(domains)
                          /\ trace[k].name = domains[nth(k)]
        \* a call is followed by its return before anything else happens
        /\ \A k \in dns : k < Len(trace) => trace[k + 1].op = "dnsReturn"
        /\ \A k \in Positions("dnsReturn") : k > 1 /\ trace[k - 1].op = "dns"
        \* once the loop is over every entry has had its call
        /\ LoopFinished => Cardinality(dns) = Len(domains)
        \* the notification follows every lookup's return
        /\ \A k \in Positions("discord") :
               /\ Cardinality({j \in Positions("dnsReturn") : j < k})
                      = Len(domains)
               /\ \A j \in dns : j < k
        \* the reply is the last event
        /\ \A k \in Positions("reply") : k = Len(trace)

C10_Witness ==
    /\ pc = "done"
    /\ Cardinality(Positions("dns")) = 2
    /\ Positions("discord") # {}
    /\ hasErrors

====
